---- MODULE Spec2Model ----
(***************************************************************************)
(* A model of simplestruct/struct.py: the MetaStruct type builder, the     *)
(* Field descriptor and the Struct instance protocol (construction,        *)
(* immutability, equality, hashing, pickling, _asdict, _replace).          *)
(*                                                                         *)
(* Classes are numbered in definition order; class 1 is Struct itself.    *)
(* A Field object is identified by the class whose body declared it and    *)
(* its name: MetaStruct.__new__ makes one fresh copy per (class, name) and *)
(* inherited fields are the base's own objects, not copies.                *)
(***************************************************************************)
EXTENDS Integers, Sequences, FiniteSets, TLC

VARIABLES classes, instances, last

vars == <<classes, instances, last>>

\* Bounds of the model.
MaxClasses == 2
MaxInst == 2

(***************************************************************************)
(* Python values stored in fields: a type tag and a payload.              *)
(***************************************************************************)
NoneV == [t |-> "NoneType", v |-> 0]
IntV(n) == [t |-> "int", v |-> n]
TrueV == [t |-> "bool", v |-> 1]

Values == {NoneV, IntV(1), TrueV}

Names == {"x", "y"}

\* v1 == v2 on values: bool is a subtype of int and True == 1.
PyValEq(v1, v2) ==
    IF v1.t = "NoneType" \/ v2.t = "NoneType"
    THEN v1.t = v2.t
    ELSE v1.v = v2.v

\* hash(v): an int or bool hashes to itself, None to a fixed value.
PyHash(v) == IF v.t = "NoneType" THEN 2 ELSE v.v

RECURSIVE Xor(_, _)
Xor(a, b) ==
    IF a = 0 /\ b = 0 THEN 0
    ELSE (((a % 2) + (b % 2)) % 2) + (2 * Xor(a \div 2, b \div 2))

RECURSIVE hash_seq(_)
hash_seq(seq) ==
    IF seq = <<>> THEN 0
    ELSE Xor(hash_seq(SubSeq(seq, 1, Len(seq) - 1)), seq[Len(seq)])

Range(s) == {s[k] : k \in 1..Len(s)}

(***************************************************************************)
(* Class definition: MetaStruct.__new__                                    *)
(*                                                                         *)
(* A class body (namespace) is modelled by the entries the framework       *)
(* reads: _inherit_fields and _immutable ("absent", "true" or "false"),    *)
(* the user's __init__ ("absent" when not defined) and the field bindings  *)
(* in the order written, each <<name, kind>>.                              *)
(***************************************************************************)
Flags == {"absent", "true", "false"}

\* Keys of the OrderedDict namespace: a rebinding keeps the first position.
RECURSIVE NamespaceKeys(_)
NamespaceKeys(body) ==
    IF body = <<>> THEN <<>>
    ELSE LET front == NamespaceKeys(SubSeq(body, 1, Len(body) - 1))
             n == body[Len(body)][1]
         IN IF n \in Range(front) THEN front ELSE Append(front, n)

\* Value of the namespace at a key: the last binding wins.
NamespaceValue(body, n) ==
    LET ks == {k \in 1..Len(body) : body[k][1] = n}
        k == CHOOSE k \in ks : \A j \in ks : j <= k
    IN body[k][2]

\* Fields gathered from this class's namespace, as fresh copies.
OwnFields(self, body) ==
    LET keys == NamespaceKeys(body)
    IN [k \in 1..Len(keys) |->
          [owner |-> self, name |-> keys[k], kind |-> NamespaceValue(body, keys[k])]]

\* fields += b._struct for each base, left to right (every base here is a
\* Struct class, so isinstance(b, MetaStruct) holds).
RECURSIVE BaseFields(_, _)
BaseFields(table, bases) ==
    IF bases = <<>> THEN <<>>
    ELSE BaseFields(table, SubSeq(bases, 1, Len(bases) - 1))
            \o table[bases[Len(bases)]]._struct

InheritedFields(table, bases, ns) ==
    IF ns.inherit = "true" THEN BaseFields(table, bases) ELSE <<>>

\* Names with a count above one.
CollidedFirstOnly(fields) ==
    LET idx == {k \in 1..Len(fields) :
                  \E j \in 1..Len(fields) : j # k /\ fields[j].name = fields[k].name}
    IN IF idx = {} THEN {}
       ELSE {fields[CHOOSE k \in idx : \A j \in idx : k <= j].name}

Collided(fields) ==
    {n \in {fields[k].name : k \in 1..Len(fields)} :
        Cardinality({k \in 1..Len(fields) : fields[k].name = n}) > 1}

\* The C3 merge of type.__new__'s method resolution order.
RECURSIVE C3Merge(_)
C3Merge(seqs) ==
    LET live == SelectSeq(seqs, LAMBDA s : s # <<>>)
    IN IF live = <<>> THEN [ok |-> TRUE, mro |-> <<>>]
       ELSE LET InTail(h) == \E j \in 1..Len(live) : h \in Range(Tail(live[j]))
                cands == {i \in 1..Len(live) : ~InTail(Head(live[i]))}
            IN IF cands = {} THEN [ok |-> FALSE, mro |-> <<>>]
               ELSE LET i == CHOOSE i \in cands : \A j \in cands : i <= j
                        h == Head(live[i])
                        rest == C3Merge([j \in 1..Len(live) |->
                                    IF Head(live[j]) = h THEN Tail(live[j]) ELSE live[j]])
                    IN [ok |-> rest.ok, mro |-> <<h>> \o rest.mro]

Linearize(table, self, bases) ==
    LET m == C3Merge([k \in 1..Len(bases) |-> table[bases[k]].mro] \o <<bases>>)
    IN [ok |-> m.ok, mro |-> <<self>> \o m.mro]

NoClass == [bases |-> <<>>, mro |-> <<>>, _struct |-> <<>>,
            ns |-> [inherit |-> "absent", immutable |-> "absent",
                    init |-> "absent", body |-> <<>>]]

\* The result of a class statement: the new class, or the error raised.
MetaStruct__new__(table, bases, ns) ==
    LET self == Len(table) + 1
        fields == InheritedFields(table, bases, ns) \o OwnFields(self, ns.body)
        collided == Collided(fields)
        lin == Linearize(table, self, bases)
    IN IF collided # {}
       THEN [ok |-> FALSE, err |-> "AttributeError", names |-> collided, cls |-> NoClass]
       ELSE IF ~lin.ok
       THEN [ok |-> FALSE, err |-> "TypeError", names |-> {}, cls |-> NoClass]
       ELSE [ok |-> TRUE, err |-> "none", names |-> {},
             cls |-> [bases |-> bases, mro |-> lin.mro, _struct |-> fields, ns |-> ns]]

\* Class attribute lookup along the method resolution order.
RECURSIVE AttrAlong(_, _, _)
AttrAlong(table, mro, attr) ==
    IF mro = <<>> THEN "absent"
    ELSE IF table[Head(mro)].ns[attr] # "absent" THEN table[Head(mro)].ns[attr]
    ELSE AttrAlong(table, Tail(mro), attr)

ClassAttr(table, c, attr) == AttrAlong(table, table[c].mro, attr)

\* class Struct(metaclass=MetaStruct): _immutable = True, no fields.
StructNs == [inherit |-> "absent", immutable |-> "true", init |-> "absent", body |-> <<>>]

StructOnly == <<MetaStruct__new__(<<>>, <<>>, StructNs).cls>>

(***************************************************************************)
(* Instances: Field descriptors, construction, equality, hashing           *)
(*                                                                         *)
(* An instance is its class, its __dict__ (field name -> value), the       *)
(* _initialized flag, and what a hash() attempted from the user's          *)
(* __init__ returned ("none" when __init__ did not try).                   *)
(***************************************************************************)
EmptyDict == [n \in {} |-> NoneV]

NoInst == [cls |-> 0, dict |-> EmptyDict, _initialized |-> FALSE, probe |-> "none"]

Fail(e) == [ok |-> FALSE, err |-> e, inst |-> NoInst]

Ok(inst) == [ok |-> TRUE, err |-> "none", inst |-> inst]

\* issubclass(c, d): d is on c's method resolution order.
IsSubclass(table, c, d) == d \in Range(table[c].mro)

\* inst._immutable, a class attribute.
Immutable(table, c) == ClassAttr(table, c, "immutable") = "true"

SchemaNames(table, c) == [k \in 1..Len(table[c]._struct) |-> table[c]._struct[k].name]

\* Field.__set__ with the immutability test dropped.
Field__set__Unchecked(table, inst, f, value) ==
    Ok([inst EXCEPT !.dict = (f.name :> value) @@ inst.dict])

Field__set__(table, inst, f, value) ==
    IF Immutable(table, inst.cls) /\ inst._initialized
    THEN Fail("AttributeError")
    ELSE Ok([inst EXCEPT !.dict = (f.name :> value) @@ inst.dict])

\* checktype(value, int): bool subtypes int, None does not.
checktype(value) == value.t \in {"int", "bool"}

\* TypedField(int, opt=True).__set__: None bypasses the check.
TypedField__set__(table, inst, f, value) ==
    IF (f.kind = "TypedOpt" /\ value = NoneV) \/ checktype(value)
    THEN Field__set__(table, inst, f, value)
    ELSE Fail("TypeError")

\* setattr(inst, f.name, value) through the descriptor f.
setattr(table, inst, f, value) ==
    IF f.kind = "Field"
    THEN Field__set__(table, inst, f, value)
    ELSE TypedField__set__(table, inst, f, value)

Field_eq(f, val1, val2) == PyValEq(val1, val2)

Field_hash(f, val) == PyHash(val)

\* Signature.bind(*args, **kargs) against one required parameter per field.
SigBind(names, args, kargs) ==
    LET pos(n) == CHOOSE k \in 1..Len(names) : names[k] = n
    IN [ok |-> /\ Len(args) <= Len(names)
               /\ DOMAIN kargs \subseteq Range(names)
               /\ \A n \in DOMAIN kargs : pos(n) > Len(args)
               /\ \A n \in Range(names) : pos(n) > Len(args) => n \in DOMAIN kargs,
        arguments |-> [n \in Range(names) |->
                          IF pos(n) <= Len(args) THEN args[pos(n)]
                          ELSE IF n \in DOMAIN kargs THEN kargs[n] ELSE NoneV]]

\* for f in fields: setattr(inst, f.name, value(f)); stops at the first error.
RECURSIVE SetAll(_, _, _, _)
SetAll(table, inst, fields, arguments) ==
    IF fields = <<>> THEN Ok(inst)
    ELSE LET r == setattr(table, inst, Head(fields), arguments[Head(fields).name])
         IN IF r.ok THEN SetAll(table, r.inst, Tail(fields), arguments) ELSE r

\* Struct.__new__: any TypeError is re-raised as a construction TypeError.
Struct__new__(table, c, args, kargs) ==
    LET b == SigBind(SchemaNames(table, c), args, kargs)
        inst == [cls |-> c, dict |-> EmptyDict, _initialized |-> FALSE, probe |-> "none"]
    IN IF ~b.ok THEN Fail("TypeError")
       ELSE SetAll(table, inst, table[c]._struct, b.arguments)

\* Struct.__hash__ that also accepts an instance under construction.
Struct__hash__NoInitCheck(table, inst) ==
    IF ~Immutable(table, inst.cls)
    THEN [ok |-> FALSE, err |-> "TypeError", val |-> 0]
    ELSE LET s == table[inst.cls]._struct
         IN [ok |-> TRUE, err |-> "none",
             val |-> hash_seq([k \in 1..Len(s) |-> Field_hash(s[k], inst.dict[s[k].name])])]

\* Struct.__hash__ that mixes the class into the hash.
Struct__hash__ByClass(table, inst) ==
    IF ~Immutable(table, inst.cls) \/ ~inst._initialized
    THEN [ok |-> FALSE, err |-> "TypeError", val |-> 0]
    ELSE LET s == table[inst.cls]._struct
         IN [ok |-> TRUE, err |-> "none",
             val |-> Xor(inst.cls,
                         hash_seq([k \in 1..Len(s) |-> Field_hash(s[k], inst.dict[s[k].name])]))]

Struct__hash__(table, inst) ==
    IF ~Immutable(table, inst.cls)
    THEN [ok |-> FALSE, err |-> "TypeError", val |-> 0]
    ELSE IF ~inst._initialized
    THEN [ok |-> FALSE, err |-> "TypeError", val |-> 0]
    ELSE LET s == table[inst.cls]._struct
         IN [ok |-> TRUE, err |-> "none",
             val |-> hash_seq([k \in 1..Len(s) |-> Field_hash(s[k], inst.dict[s[k].name])])]

HashOutcome(h) == IF h.ok THEN "value" ELSE h.err

\* A user-defined __init__, found along the method resolution order:
\*   "reset": for f in self._struct: setattr(self, f.name, None)
\*   "probe": tries hash(self) and keeps what happened
\*   "absent": object.__init__, which does nothing.
UserInit(table, inst) ==
    LET kind == ClassAttr(table, inst.cls, "init")
    IN IF kind = "reset"
       THEN SetAll(table, inst, table[inst.cls]._struct,
                   [n \in Range(SchemaNames(table, inst.cls)) |-> NoneV])
       ELSE IF kind = "probe"
       THEN Ok([inst EXCEPT !.probe = HashOutcome(Struct__hash__(table, inst))])
       ELSE Ok(inst)

\* MetaStruct.__call__: __new__, then __init__, then mark initialized.
MetaStruct__call__(table, c, args, kargs) ==
    LET n == Struct__new__(table, c, args, kargs)
    IN IF ~n.ok THEN n
       ELSE LET i == UserInit(table, n.inst)
            IN IF ~i.ok THEN i ELSE Ok([i.inst EXCEPT !._initialized = TRUE])

\* Struct.__eq__ without the schema comparison.
Struct__eq__NoSchema(table, self, other) ==
    IF ~IsSubclass(table, self.cls, other.cls) THEN "NotImplemented"
    ELSE LET s == table[self.cls]._struct
         IN IF \E k \in 1..Len(s) : s[k].name \notin DOMAIN self.dict
                                       \/ s[k].name \notin DOMAIN other.dict
            THEN "AttributeError"
            ELSE IF \A k \in 1..Len(s) :
                        Field_eq(s[k], self.dict[s[k].name], other.dict[s[k].name])
            THEN "True" ELSE "False"

\* Struct.__eq__ that compares attribute values without looking at the types.
Struct__eq__Duck(table, self, other) ==
    LET s == table[self.cls]._struct
    IN IF \E k \in 1..Len(s) : s[k].name \notin DOMAIN other.dict THEN "False"
       ELSE IF \A k \in 1..Len(s) :
                   Field_eq(s[k], self.dict[s[k].name], other.dict[s[k].name])
       THEN "True" ELSE "False"

\* Struct.__eq__: "NotImplemented", "True" or "False".
Struct__eq__(table, self, other) ==
    IF ~IsSubclass(table, self.cls, other.cls) THEN "NotImplemented"
    ELSE IF table[self.cls]._struct # table[other.cls]._struct THEN "False"
    ELSE LET s == table[self.cls]._struct
         IN IF \A k \in 1..Len(s) :
                     Field_eq(s[k], self.dict[s[k].name], other.dict[s[k].name])
            THEN "True" ELSE "False"

\* a == b as the interpreter resolves it: the operand of the proper subclass
\* is asked first, then the other one; two NotImplemented answers fall back
\* to identity (same: a and b are the same object).
PyEq(table, a, b, same) ==
    LET subfirst == b.cls # a.cls /\ IsSubclass(table, b.cls, a.cls)
        first == IF subfirst THEN Struct__eq__(table, b, a) ELSE Struct__eq__(table, a, b)
        second == IF subfirst THEN Struct__eq__(table, a, b) ELSE Struct__eq__(table, b, a)
    IN IF first # "NotImplemented" THEN first
       ELSE IF second # "NotImplemented" THEN second
       ELSE IF same THEN "True" ELSE "False"

\* Struct.__reduce_ex__ that exports the values in reverse order.
Struct__reduce_ex__Reversed(table, inst) ==
    LET names == SchemaNames(table, inst.cls)
    IN [cls |-> inst.cls,
        args |-> [k \in 1..Len(names) |-> inst.dict[names[Len(names) + 1 - k]]]]

\* Struct.__reduce_ex__: (class, field values in schema order).
Struct__reduce_ex__(table, inst) ==
    LET names == SchemaNames(table, inst.cls)
    IN [cls |-> inst.cls, args |-> [k \in 1..Len(names) |-> inst.dict[names[k]]]]

\* What unpickling does with the reduced pair: cls(*args).
Reconstruct(table, red) == MetaStruct__call__(table, red.cls, red.args, EmptyDict)

\* Struct._asdict: (name, value) pairs in schema order.
Struct_asdict(table, inst) ==
    LET names == SchemaNames(table, inst.cls)
    IN [k \in 1..Len(names) |-> <<names[k], inst.dict[names[k]]>>]

\* Struct._replace that ignores kargs.
Struct_replaceNoUpdate(table, inst, kargs) ==
    LET names == Range(SchemaNames(table, inst.cls))
        fields == [n \in names |-> inst.dict[n]]
    IN MetaStruct__call__(table, inst.cls, <<>>, fields)

\* Struct._replace: type(self)(**fields) with fields updated by kargs.
Struct_replace(table, inst, kargs) ==
    LET names == Range(SchemaNames(table, inst.cls))
        fields == [n \in names |-> inst.dict[n]]
    IN MetaStruct__call__(table, inst.cls, <<>>, kargs @@ fields)

(***************************************************************************)
(* State                                                                   *)
(*                                                                         *)
(* classes: the classes defined so far; instances: the instances made so   *)
(* far, all returned by their constructor call; last: the most recent      *)
(* operation and how it ended (out: "ok", a result, or the exception       *)
(* raised). For "class" and "new", last.inst is the class concerned; for   *)
(* "new", last.other is the number of arguments; for "eq", last.other is   *)
(* the right operand.                                                      *)
(***************************************************************************)
NoOp == [op |-> "none", inst |-> 0, other |-> 0, name |-> "-", val |-> NoneV,
         out |-> "none", names |-> {}, kargs |-> [n \in {} |-> NoneV]]

\* Base lists of a class statement: one or two distinct existing classes.
BaseLists(table) ==
    {<<b>> : b \in 1..Len(table)} \cup
    {bs \in {<<b1, b2>> : b1, b2 \in 1..Len(table)} : bs[1] # bs[2]}

\* Class bodies binding at most two times a name to a plain Field.
PlainBodies ==
    ({<<>>} \cup {<<<<n, "Field">>>> : n \in Names})
           \cup {<<<<n1, "Field">>, <<n2, "Field">>>> : n1, n2 \in Names}

DefineClass(bases, ns) ==
    \E r \in {MetaStruct__new__(classes, bases, ns)} :
       /\ r.ok => Len(classes) <= MaxClasses
       /\ classes' = IF r.ok THEN Append(classes, r.cls) ELSE classes
       /\ last' = [NoOp EXCEPT !.op = "class", !.inst = Len(classes) + 1,
                               !.out = IF r.ok THEN "ok" ELSE r.err,
                               !.names = r.names]
       /\ UNCHANGED instances

InitTypes ==
    /\ classes = StructOnly
    /\ instances = <<>>
    /\ last = NoOp

NextTypes ==
    \E bases \in BaseLists(classes), body \in PlainBodies, inh \in Flags :
        DefineClass(bases, [inherit |-> inh, immutable |-> "absent",
                            init |-> "absent", body |-> body])

SpecTypes == InitTypes /\ [][NextTypes]_vars

(***************************************************************************)
(* A program's classes, on which instances are made                        *)
(***************************************************************************)
Define(table, bases, inh, imm, init, body) ==
    LET r == MetaStruct__new__(table, bases,
                 [inherit |-> inh, immutable |-> imm, init |-> init, body |-> body])
    IN IF r.ok THEN Append(table, r.cls) ELSE table

\* class Point(Struct): x = Field
\*     def __init__(self, *args): (tries hash(self))
Point == Len(StructOnly) + 1
WithPoint == Define(StructOnly, <<1>>, "absent", "absent", "probe", <<<<"x", "Field">>>>)

\* class Point2(Point): _inherit_fields = True
Point2 == Len(WithPoint) + 1
WithPoint2 == Define(WithPoint, <<Point>>, "true", "absent", "absent", <<>>)

\* class Point3(Point): _inherit_fields = True; y = Field
Point3 == Len(WithPoint2) + 1
WithPoint3 == Define(WithPoint2, <<Point>>, "true", "absent", "absent", <<<<"y", "Field">>>>)

\* class Bare(Point): pass
Bare == Len(WithPoint3) + 1
WithBare == Define(WithPoint3, <<Point>>, "absent", "absent", "absent", <<>>)

\* class Opt(Struct): _immutable = False; x = TypedField(int, opt=True)
Opt == Len(WithBare) + 1
WithOpt == Define(WithBare, <<1>>, "absent", "false", "absent", <<<<"x", "TypedOpt">>>>)

\* class Reset(Struct): _immutable = False; x = Field
\*     def __init__(self, x): self.x = None
Reset == Len(WithOpt) + 1
Program == Define(WithOpt, <<1>>, "absent", "false", "reset", <<<<"x", "Field">>>>)

\* The classes a program instantiates: all but Struct itself.
UserClasses(table) == 2..Len(table)

\* Positional argument lists of a constructor call.
ArgLists ==
    ({<<>>} \cup {<<v>> : v \in Values}) \cup {<<v1, v2>> : v1, v2 \in Values}

\* Keyword arguments of _replace: values for some of the names.
KwArgs == UNION {[S -> Values] : S \in SUBSET Names}

(***************************************************************************)
(* Operations on instances                                                 *)
(***************************************************************************)
\* inst = cls(*args)
Construct(c, args) ==
    /\ Len(instances) < MaxInst
    /\ \E r \in {MetaStruct__call__(classes, c, args, EmptyDict)} :
          /\ instances' = IF r.ok THEN Append(instances, r.inst) ELSE instances
          /\ last' = [NoOp EXCEPT !.op = "new", !.inst = c, !.other = Len(args),
                                  !.out = IF r.ok THEN "ok" ELSE r.err]
    /\ UNCHANGED classes

\* inst.name = value, for a field of the instance's schema (last.val is the
\* value the write stored)
SetField(i, k, value) ==
    /\ \E r \in {setattr(classes, instances[i], classes[instances[i].cls]._struct[k], value)} :
          /\ instances' = IF r.ok THEN [instances EXCEPT ![i] = r.inst] ELSE instances
          /\ last' = [NoOp EXCEPT !.op = "set", !.inst = i,
                                  !.name = classes[instances[i].cls]._struct[k].name,
                                  !.val = IF r.ok THEN value ELSE NoneV,
                                  !.out = IF r.ok THEN "ok" ELSE r.err]
    /\ UNCHANGED classes

\* hash(inst)
Hash(i) ==
    /\ last' = [NoOp EXCEPT !.op = "hash", !.inst = i,
                            !.out = HashOutcome(Struct__hash__(classes, instances[i]))]
    /\ UNCHANGED <<classes, instances>>

\* inst._asdict()
AsDict(i) ==
    /\ last' = [NoOp EXCEPT !.op = "asdict",
                            !.other = Len(Struct_asdict(classes, instances[i])),
                            !.out = "ok"]
    /\ UNCHANGED <<classes, instances>>

\* a == b
Compare(i, j) ==
    /\ last' = [NoOp EXCEPT !.op = "eq", !.inst = i, !.other = j,
                            !.out = PyEq(classes, instances[i], instances[j], i = j)]
    /\ UNCHANGED <<classes, instances>>

\* copy = inst._replace(**kargs)
Replace(i, kargs) ==
    /\ Len(instances) < MaxInst
    /\ \E r \in {Struct_replace(classes, instances[i], kargs)} :
          /\ instances' = IF r.ok THEN Append(instances, r.inst) ELSE instances
          /\ last' = [NoOp EXCEPT !.op = "replace", !.inst = i,
                                  !.kargs = kargs,
                                  !.out = IF r.ok THEN "ok" ELSE r.err]
    /\ UNCHANGED classes

\* copy = pickle.loads(pickle.dumps(inst))
Unpickle(i) ==
    /\ Len(instances) < MaxInst
    /\ \E r \in {Reconstruct(classes, Struct__reduce_ex__(classes, instances[i]))} :
          /\ instances' = IF r.ok THEN Append(instances, r.inst) ELSE instances
          /\ last' = [NoOp EXCEPT !.op = "pickle", !.inst = i,
                                  !.out = IF r.ok THEN "ok" ELSE r.err]
    /\ UNCHANGED classes

Init ==
    /\ classes = Program
    /\ instances = <<>>
    /\ last = NoOp

Next ==
    \/ \E c \in UserClasses(classes), args \in ArgLists : Construct(c, args)
    \/ \E i \in 1..Len(instances) :
         \E k \in 1..Len(classes[instances[i].cls]._struct), value \in Values :
            SetField(i, k, value)
    \/ \E i \in 1..Len(instances) : Hash(i)
    \/ \E i \in 1..Len(instances) : AsDict(i)
    \/ \E i, j \in 1..Len(instances) : Compare(i, j)
    \/ \E i \in 1..Len(instances), kargs \in KwArgs : Replace(i, kargs)
    \/ \E i \in 1..Len(instances) : Unpickle(i)

Spec == Init /\ [][Next]_vars

(***************************************************************************)
(* Properties of the type builder (checked under SpecTypes)                *)
(***************************************************************************)
DeclNs(inh, body) ==
    [inherit |-> inh, immutable |-> "absent", init |-> "absent", body |-> body]

\* The names a declaration binds, as written: inherited ones, then its own.
WrittenNames(table, bases, ns) ==
    LET inherited == InheritedFields(table, bases, ns)
    IN [k \in 1..Len(inherited) |-> inherited[k].name]
          \o [k \in 1..Len(ns.body) |-> ns.body[k][1]]

Repeated(names) ==
    {n \in Range(names) : Cardinality({k \in 1..Len(names) : names[k] = n}) > 1}

\* C4 as stated: a declaration that binds a field name more than once (twice
\* in its own body, own and inherited, or inherited from two bases) fails
\* with a collision error and produces no type: no class of the program has
\* such a declaration.
C4_AnyRebindingCollides ==
    \A c \in 2..Len(classes) :
        Repeated(WrittenNames(SubSeq(classes, 1, c - 1),
                              classes[c].bases, classes[c].ns)) = {}

\* C4 (amended): a declaration whose inherited fields (under _inherit_fields)
\* share a name with each other or with a name of its own body fails with a
\* collision error (AttributeError) listing exactly those names and produces
\* no type; no other declaration raises that error, and a name written twice
\* in the class's own body gives one field of that name.
C4_InheritedCollisionsRejected ==
    \A bases \in BaseLists(classes), body \in PlainBodies, inh \in Flags :
        LET r == MetaStruct__new__(classes, bases, DeclNs(inh, body))
            inherited == WrittenNames(classes, bases, DeclNs(inh, <<>>))
            own == {body[k][1] : k \in 1..Len(body)}
            clash == Repeated(inherited) \cup (Range(inherited) \cap own)
        IN /\ clash # {} => (~r.ok /\ r.err = "AttributeError" /\ r.names = clash)
           /\ r.err = "AttributeError" => clash # {}
           /\ r.ok => \A n \in own :
                 Cardinality({k \in 1..Len(r.cls._struct) : r.cls._struct[k].name = n}) = 1

\* A class statement has just failed, reporting two colliding names.
C4_Witness ==
    /\ last.op = "class"
    /\ last.out = "AttributeError"
    /\ Cardinality(last.names) = Cardinality(Names)

\* C9: a class whose _inherit_fields attribute evaluates to true (set in its
\* own body or inherited from a base) has as schema its bases' schemas,
\* left to right, followed by its own fields; otherwise exactly its own fields.
C9_SchemaFollowsInheritAttribute ==
    \A c \in 2..Len(classes) :
        LET own == OwnFields(c, classes[c].ns.body)
        IN classes[c]._struct =
              IF ClassAttr(classes, c, "inherit") = "true"
              THEN BaseFields(classes, classes[c].bases) \o own
              ELSE own

(***************************************************************************)
(* Properties of instances (checked under Spec)                            *)
(***************************************************************************)
Insts == 1..Len(instances)

ClassOf(i) == instances[i].cls

\* C1: once constructed, an instance of an immutable type never changes and
\* every write to one of its fields fails with AttributeError, whatever was
\* done before; a write to a field of a mutable instance succeeds and the
\* field then reads as the written value.
C1_ImmutableAfterConstruction ==
    [][\A i \in Insts :
          IF Immutable(classes, ClassOf(i))
          THEN /\ instances'[i] = instances[i]
               /\ (last'.op = "set" /\ last'.inst = i) => last'.out = "AttributeError"
          ELSE (last'.op = "set" /\ last'.inst = i) =>
                  /\ last'.out = "ok"
                  /\ instances'[i].dict[last'.name] = last'.val]_vars

\* A write to an immutable instance has just failed, after a further instance
\* was made (by the constructor, _replace or unpickling).
C1_Witness ==
    /\ last.op = "set"
    /\ last.out = "AttributeError"
    /\ Immutable(classes, ClassOf(last.inst))
    /\ Len(instances) > last.inst

\* C2: hash(inst) returns a value iff the type is immutable and construction
\* has completed; otherwise it raises TypeError, in particular when the
\* user's __init__ asks for it.
C2_HashIffImmutableInitialized ==
    \A i \in Insts :
        LET h == Struct__hash__(classes, instances[i])
        IN /\ instances[i]._initialized
           /\ h.ok <=> Immutable(classes, ClassOf(i))
           /\ ~h.ok => h.err = "TypeError"
           /\ instances[i].probe \in {"none", "TypeError"}
           /\ ClassAttr(classes, ClassOf(i), "init") = "probe" =>
                 instances[i].probe = "TypeError"
           /\ (last.op = "hash" /\ last.inst = i) =>
                 last.out = IF Immutable(classes, ClassOf(i)) THEN "value" ELSE "TypeError"

\* An immutable instance whose __init__ was refused a hash has just been hashed.
C2_Witness ==
    /\ last.op = "hash"
    /\ last.out = "value"
    /\ instances[last.inst].probe = "TypeError"

IsOptOnly(c) ==
    /\ Len(classes[c]._struct) = 1
    /\ classes[c]._struct[1].kind = "TypedOpt"

\* C3: a type whose only field is TypedField(int, opt=True) can be constructed
\* with no argument, and the result equals the instance constructed with None.
C3_OptionalFieldMayBeOmitted ==
    (last.op = "new" /\ IsOptOnly(last.inst) /\ last.other = 0) =>
        /\ last.out = "ok"
        /\ Len(instances) > 0
        /\ PyEq(classes, instances[Len(instances)],
                MetaStruct__call__(classes, last.inst, <<NoneV>>, EmptyDict).inst,
                FALSE) = "True"

RoundTrip(i) ==
    LET r == Reconstruct(classes, Struct__reduce_ex__(classes, instances[i]))
    IN /\ r.ok
       /\ r.inst.cls = ClassOf(i)
       /\ r.inst._initialized
       /\ PyEq(classes, r.inst, instances[i], FALSE) = "True"

WritesFieldsInInit(c) == ClassAttr(classes, c, "init") = "reset"

\* C5 as stated: for every instance, whatever its type's __init__ does,
\* cls(*values) of the reduced pair is an initialized instance equal to it.
C5_RoundTripAlways == \A i \in Insts : RoundTrip(i)

\* C5 (amended): the same, for types whose __init__ (if any) writes no field.
C5_RoundTrip == \A i \in Insts : ~WritesFieldsInInit(ClassOf(i)) => RoundTrip(i)

\* A mutable instance was written to and then unpickled, and the copy has
\* the written value.
C5_Witness ==
    /\ last.op = "pickle"
    /\ last.out = "ok"
    /\ ~Immutable(classes, ClassOf(last.inst))
    /\ ~WritesFieldsInInit(ClassOf(last.inst))
    /\ instances[last.inst].dict["x"] # NoneV
    /\ instances[Len(instances)] = instances[last.inst]

\* The step is a _replace that leaves the original as it was and, when the
\* overrides name fields only, appends an initialized copy of the same type
\* holding the overrides in the named fields and the original's values in
\* the others (so a copy equal to the original when there is no override).
ReplaceStep ==
    LET i == last'.inst
        kargs == last'.kargs
        names == Range(SchemaNames(classes, ClassOf(i)))
        copy == instances'[Len(instances')]
    IN /\ instances'[i] = instances[i]
       /\ DOMAIN kargs \subseteq names =>
             /\ last'.out = "ok"
             /\ Len(instances') = Len(instances) + 1
             /\ copy.cls = ClassOf(i)
             /\ copy._initialized
             /\ \A n \in names :
                   copy.dict[n] = IF n \in DOMAIN kargs THEN kargs[n]
                                  ELSE instances[i].dict[n]
             /\ kargs = EmptyDict =>
                   PyEq(classes, copy, instances[i], FALSE) = "True"

C7_DifferentSchemasUnequal ==
    \A i, j \in Insts :
        SchemaNames(classes, ClassOf(i)) # SchemaNames(classes, ClassOf(j)) =>
            /\ PyEq(classes, instances[i], instances[j], i = j) # "True"
            /\ Struct__eq__(classes, instances[i], instances[j]) # "True"

\* A base instance and an instance of a subtype with another schema have just
\* been compared, their common attribute being identical.
C7_Witness ==
    /\ last.op = "eq"
    /\ last.out = "False"
    /\ ClassOf(last.inst) # ClassOf(last.other)
    /\ IsSubclass(classes, ClassOf(last.other), ClassOf(last.inst))
    /\ SchemaNames(classes, ClassOf(last.inst)) # SchemaNames(classes, ClassOf(last.other))
    /\ "x" \in DOMAIN instances[last.inst].dict
    /\ "x" \in DOMAIN instances[last.other].dict
    /\ instances[last.inst].dict["x"] = instances[last.other].dict["x"]

\* C8: equal instances of immutable types have equal hashes.
C8_EqualImpliesSameHash ==
    \A i, j \in Insts :
        (/\ Immutable(classes, ClassOf(i))
         /\ Immutable(classes, ClassOf(j))
         /\ PyEq(classes, instances[i], instances[j], i = j) = "True") =>
            LET hi == Struct__hash__(classes, instances[i])
                hj == Struct__hash__(classes, instances[j])
            IN hi.ok /\ hj.ok /\ hi.val = hj.val

\* A base instance and a subtype instance holding 1 and True have just
\* compared equal.
C8_Witness ==
    /\ last.op = "eq"
    /\ last.out = "True"
    /\ ClassOf(last.inst) # ClassOf(last.other)
    /\ Immutable(classes, ClassOf(last.inst))
    /\ Immutable(classes, ClassOf(last.other))
    /\ instances[last.inst].dict # instances[last.other].dict

\* C10: a == b and b == a give the same answer for every pair of instances.
C10_EqualitySymmetric ==
    \A i, j \in Insts :
        PyEq(classes, instances[i], instances[j], i = j)
            = PyEq(classes, instances[j], instances[i], i = j)

\* A base instance has just been compared with a subtype instance: its own
\* __eq__ declines and the subtype's answer, True, is the result.
C10_Witness ==
    /\ last.op = "eq"
    /\ last.out = "True"
    /\ Struct__eq__(classes, instances[last.inst], instances[last.other]) = "NotImplemented"

====
